---- MODULE Spec2Model ----
(***************************************************************************)
(* State-machine model of the registry toolkit's in-memory engines:        *)
(*   - TagProtection  (pkg/registry/tag_protection.go)                     *)
(*   - BatchOperator  (pkg/registry/batch_operations.go)                   *)
(*   - HealthMonitor  (the health monitor with circuit breaker)            *)
(* Each engine has its own specifications; the engines share no state, so  *)
(* each specification leaves the other engine's variables untouched.       *)
(***************************************************************************)
EXTENDS Integers, Sequences, FiniteSets, TLC

VARIABLES
    policies,   \* TagProtection.policies: the slice of policies, in insertion order
    last,       \* the last TagProtection call: its name, arguments and return values
    workers,    \* BatchOperator.workers
    heap,       \* every BatchOperation allocated so far (its index is the pointer)
    operations, \* BatchOperator.operations: id -> pointer into heap
    exec,       \* per BatchOperation, its executeBatch goroutine: position, locals
                \* and the goroutines it started, one per target
    returned,   \* per submit call, the (*BatchOperation, error) it returned
    threshold,  \* HealthMonitor.threshold
    retryDelay, \* HealthMonitor.retryDelay
    checks,     \* HealthMonitor.checks: endpoint -> HealthCheck record
    ctxDone,    \* whether HealthMonitor.ctx is cancelled
    hmWg,       \* the counter of HealthMonitor.wg
    monitors,   \* the monitorEndpoint goroutines started so far: endpoint,
                \* position and the locals of the performCheck in progress
    caller,     \* the monitor's user: Start() calls made, position in Stop()
    now         \* the clock (time.Now)

tpVars == <<policies, last>>
boVars == <<workers, heap, operations, exec, returned>>
hmVars == <<threshold, retryDelay, checks, ctxDone, hmWg, monitors, caller, now>>
vars == <<policies, last, workers, heap, operations, exec, returned,
          threshold, retryDelay, checks, ctxDone, hmWg, monitors, caller, now>>

----------------------------------------------------------------------------
(* Bounds of the model *)

\* most policies the collection holds when checks are queried
MaxPolicies == 2
\* most policies the collection holds when it is only edited (SpecTPEdit)
MaxEditPolicies == 4
\* most targets of a batch
MaxTargets == 3
\* largest worker limit an executor is built with
MaxWorkers == 2
\* largest reading of the clock
MaxClock == 1
\* most batches submitted to one executor (SpecStore)
MaxBatches == 2
\* largest threshold a monitor is built with
MaxThreshold == 2
\* largest retry delay a monitor is built with, in units of the clock
MaxRetryDelay == 1
\* latest time the monitor's clock reaches
MaxNow == 3
\* most probe results recorded for an endpoint
MaxAttempts == 3
\* most probe results recorded for an endpoint while Stop() is followed
MaxStopAttempts == 2

\* the calls of Start() on one monitor
MaxStarts == 2

\* latest time the clock reaches while two endpoints are followed
MaxPairNow == 2

----------------------------------------------------------------------------
(* TagProtection: values *)

\* `.*` of a regular expression
STAR == "STAR"

\* A *regexp.Regexp: nil, or a compiled expression made of literal characters
\* and `.*`, optionally ending in `$`.
NilPattern == [isNil |-> TRUE, elems |-> <<>>, anchorEnd |-> FALSE]
\* `.*:.*`
PatAll == [isNil |-> FALSE, elems |-> <<STAR, ":", STAR>>, anchorEnd |-> FALSE]
\* `p/.*:.*` (a repository prefix)
PatProd == [isNil |-> FALSE, elems |-> <<"p", "/", STAR, ":", STAR>>, anchorEnd |-> FALSE]
\* `.*:v$` (a tag form)
PatVer == [isNil |-> FALSE, elems |-> <<STAR, ":", "v">>, anchorEnd |-> TRUE]

Patterns == {NilPattern, PatAll, PatProd, PatVer}
Names == {"a", "b"}
Priorities == {1, 10}
MaxAges == {0, 2}
Ages == {1, 2, 3}
Repositories == {<<"p", "/">>, <<"s", "/">>}
Tags == {<<"v">>, <<"l">>}

\* ProtectionPolicy
ProtectionPolicy ==
    [Name : Names, Pattern : Patterns, Immutable : BOOLEAN, MaxAge : MaxAges,
     AllowDelete : BOOLEAN, Priority : Priorities]

\* the policies the modification checks are run over: CanModify never reads
\* AllowDelete
ModifyPolicy ==
    [Name : Names, Pattern : {PatProd, PatVer}, Immutable : BOOLEAN,
     MaxAge : MaxAges, AllowDelete : {FALSE}, Priority : Priorities]

\* the policies the deletion checks are run over: CanDelete never reads
\* Immutable or MaxAge
DeletePolicy ==
    [Name : Names, Pattern : {PatProd, PatVer}, Immutable : {FALSE},
     MaxAge : {0}, AllowDelete : BOOLEAN, Priority : Priorities]

\* the policies the editing specification adds: every name, with or without a
\* pattern, told apart by their priority
EditPolicy ==
    [Name : Names, Pattern : {NilPattern, PatAll}, Immutable : {FALSE},
     MaxAge : {0}, AllowDelete : {TRUE}, Priority : Priorities]

\* the (bool, string) a check returns; the string is kept as its format and
\* its arguments
NoReason == [fmt |-> "", policy |-> "", window |-> 0]
ImmutableReason(name) ==
    [fmt |-> "tag is immutable (policy: %s)", policy |-> name, window |-> 0]
AgeReason(maxAge, name) ==
    [fmt |-> "tag protected for %s (policy: %s)", policy |-> name, window |-> maxAge]
DeleteReason(name) ==
    [fmt |-> "tag deletion not allowed (policy: %s)", policy |-> name, window |-> 0]

----------------------------------------------------------------------------
(* TagProtection: pure functions *)

\* regexp matching of a whole string against literals and `.*`
RECURSIVE MatchHere(_, _)
MatchHere(pat, s) ==
    IF pat = <<>> THEN s = <<>>
    ELSE IF Head(pat) = STAR
         THEN MatchHere(Tail(pat), s) \/ (s # <<>> /\ MatchHere(pat, Tail(s)))
         ELSE s # <<>> /\ Head(s) = Head(pat) /\ MatchHere(Tail(pat), Tail(s))

\* fmt.Sprintf("%s:%s", repository, tag)
TagRef(repository, tag) == repository \o <<":">> \o tag

\* every reference a check is asked about
TagRefs == {TagRef(r, t) : r \in Repositories, t \in Tags}

\* Regexp.MatchString: unanchored, so the expression may match anywhere in s
\* (up to the end of s when it ends in `$`)
Matches(p, s) ==
    MatchHere(<<STAR>> \o p.elems \o (IF p.anchorEnd THEN <<>> ELSE <<STAR>>), s)

\* Matches, computed once for every compiled pattern and reference
MatchTable == [p \in Patterns \ {NilPattern} |-> [s \in TagRefs |-> Matches(p, s)]]

MatchString(p, s) == MatchTable[p][s]

\* ModifyScan with `>=` for `>`: among equal priorities the last match wins
RECURSIVE ModifyScanLastWins(_, _, _, _)
ModifyScanLastWins(ps, i, tagRef, matched) ==
    IF i > Len(ps) THEN matched
    ELSE IF MatchString(ps[i].Pattern, tagRef)
            /\ (matched = 0 \/ ps[i].Priority >= ps[matched].Priority)
         THEN ModifyScanLastWins(ps, i + 1, tagRef, i)
         ELSE ModifyScanLastWins(ps, i + 1, tagRef, matched)

\* the scan of CanModify: matched is the index of matchedPolicy (0: nil)
RECURSIVE ModifyScan(_, _, _, _)
ModifyScan(ps, i, tagRef, matched) ==
    IF i > Len(ps) THEN matched
    ELSE IF MatchString(ps[i].Pattern, tagRef)
            /\ (matched = 0 \/ ps[i].Priority > ps[matched].Priority)
         THEN ModifyScan(ps, i + 1, tagRef, i)
         ELSE ModifyScan(ps, i + 1, tagRef, matched)

\* CanModify with the age test before the immutability test
CanModifyAgeFirst(ps, repository, tag, age) ==
    LET tagRef == TagRef(repository, tag)
        m == ModifyScan(ps, 1, tagRef, 0)
    IN  IF m = 0 THEN [allowed |-> TRUE, reason |-> NoReason]
        ELSE IF ps[m].MaxAge > 0
             THEN IF age < ps[m].MaxAge
                  THEN [allowed |-> FALSE,
                        reason |-> AgeReason(ps[m].MaxAge, ps[m].Name)]
                  ELSE [allowed |-> TRUE, reason |-> NoReason]
        ELSE IF ps[m].Immutable
             THEN [allowed |-> FALSE, reason |-> ImmutableReason(ps[m].Name)]
        ELSE [allowed |-> TRUE, reason |-> NoReason]

\* CanModify with `age <= MaxAge` for `age < MaxAge`
CanModifyAgeInclusive(ps, repository, tag, age) ==
    LET tagRef == TagRef(repository, tag)
        m == ModifyScan(ps, 1, tagRef, 0)
    IN  IF m = 0 THEN [allowed |-> TRUE, reason |-> NoReason]
        ELSE IF ps[m].Immutable
             THEN [allowed |-> FALSE, reason |-> ImmutableReason(ps[m].Name)]
        ELSE IF ps[m].MaxAge > 0 /\ age <= ps[m].MaxAge
             THEN [allowed |-> FALSE, reason |-> AgeReason(ps[m].MaxAge, ps[m].Name)]
        ELSE [allowed |-> TRUE, reason |-> NoReason]

CanModify(ps, repository, tag, age) ==
    LET tagRef == TagRef(repository, tag)
        m == ModifyScan(ps, 1, tagRef, 0)
    IN  IF m = 0 THEN [allowed |-> TRUE, reason |-> NoReason]
        ELSE IF ps[m].Immutable
             THEN [allowed |-> FALSE, reason |-> ImmutableReason(ps[m].Name)]
        ELSE IF ps[m].MaxAge > 0 /\ age < ps[m].MaxAge
             THEN [allowed |-> FALSE, reason |-> AgeReason(ps[m].MaxAge, ps[m].Name)]
        ELSE [allowed |-> TRUE, reason |-> NoReason]

\* DeleteScan that lets the first matching policy decide: a match that allows
\* the delete ends the scan
RECURSIVE DeleteScanFirstMatch(_, _, _)
DeleteScanFirstMatch(ps, i, tagRef) ==
    IF i > Len(ps) THEN 0
    ELSE IF MatchString(ps[i].Pattern, tagRef)
         THEN (IF ps[i].AllowDelete THEN 0 ELSE i)
         ELSE DeleteScanFirstMatch(ps, i + 1, tagRef)

\* the scan of CanDelete: the index of the policy that returns, 0 when the loop ends
RECURSIVE DeleteScan(_, _, _)
DeleteScan(ps, i, tagRef) ==
    IF i > Len(ps) THEN 0
    ELSE IF MatchString(ps[i].Pattern, tagRef) /\ ~ps[i].AllowDelete
         THEN i
         ELSE DeleteScan(ps, i + 1, tagRef)

CanDelete(ps, repository, tag) ==
    LET v == DeleteScan(ps, 1, TagRef(repository, tag))
    IN  IF v = 0 THEN [allowed |-> TRUE, reason |-> NoReason]
        ELSE [allowed |-> FALSE, reason |-> DeleteReason(ps[v].Name)]

\* RemoveScan that keeps scanning: it stops at the last policy with the name
RECURSIVE RemoveScanLast(_, _, _)
RemoveScanLast(ps, i, name) ==
    IF i > Len(ps) THEN 0
    ELSE LET later == RemoveScanLast(ps, i + 1, name)
         IN  IF later # 0 THEN later
             ELSE IF ps[i].Name = name THEN i ELSE 0

\* the index RemovePolicy's loop stops at, 0 when no policy has the name
RECURSIVE RemoveScan(_, _, _)
RemoveScan(ps, i, name) ==
    IF i > Len(ps) THEN 0
    ELSE IF ps[i].Name = name THEN i
    ELSE RemoveScan(ps, i + 1, name)

\* append(tp.policies[:i], tp.policies[i+1:]...)
RemoveAt(ps, i) == SubSeq(ps, 1, i - 1) \o SubSeq(ps, i + 1, Len(ps))

----------------------------------------------------------------------------
(* TagProtection: operations *)

NoCall == [op |-> "none"]

\* AddPolicy that replaces a policy of the same name instead of appending
AddPolicyReplacing(policy) ==
    /\ IF policy.Pattern.isNil
       THEN /\ last' = [op |-> "AddPolicy", policy |-> policy, err |-> TRUE]
            /\ UNCHANGED policies
       ELSE /\ policies' =
                 IF \E i \in 1..Len(policies) : policies[i].Name = policy.Name
                 THEN [i \in 1..Len(policies) |->
                         IF policies[i].Name = policy.Name THEN policy
                         ELSE policies[i]]
                 ELSE Append(policies, policy)
            /\ last' = [op |-> "AddPolicy", policy |-> policy, err |-> FALSE]
    /\ UNCHANGED <<boVars, hmVars>>

AddPolicy(policy) ==
    /\ IF policy.Pattern.isNil
       THEN /\ last' = [op |-> "AddPolicy", policy |-> policy, err |-> TRUE]
            /\ UNCHANGED policies
       ELSE /\ policies' = Append(policies, policy)
            /\ last' = [op |-> "AddPolicy", policy |-> policy, err |-> FALSE]
    /\ UNCHANGED <<boVars, hmVars>>

CallCanModify(repository, tag, age) ==
    /\ last' = [op |-> "CanModify", repository |-> repository, tag |-> tag,
                age |-> age, ret |-> CanModify(policies, repository, tag, age)]
    /\ UNCHANGED policies
    /\ UNCHANGED <<boVars, hmVars>>

CallCanDelete(repository, tag) ==
    /\ last' = [op |-> "CanDelete", repository |-> repository, tag |-> tag,
                ret |-> CanDelete(policies, repository, tag)]
    /\ UNCHANGED policies
    /\ UNCHANGED <<boVars, hmVars>>

RemovePolicy(name) ==
    /\ LET i == RemoveScan(policies, 1, name)
       IN  IF i = 0
           THEN /\ last' = [op |-> "RemovePolicy", name |-> name, ret |-> FALSE]
                /\ UNCHANGED policies
           ELSE /\ policies' = RemoveAt(policies, i)
                /\ last' = [op |-> "RemovePolicy", name |-> name, ret |-> TRUE]
    /\ UNCHANGED <<boVars, hmVars>>

\* ListPolicies: a copy of the slice
ListPolicies == [i \in 1..Len(policies) |-> policies[i]]

CallListPolicies ==
    /\ last' = [op |-> "ListPolicies", ret |-> ListPolicies]
    /\ UNCHANGED policies
    /\ UNCHANGED <<boVars, hmVars>>

----------------------------------------------------------------------------
(* BatchOperator: values *)

BatchOpDelete == "delete"
BatchOpTag == "tag"
BatchOpCopy == "copy"

BatchOpPending == "pending"
BatchOpRunning == "running"
BatchOpCompleted == "completed"
BatchOpFailed == "failed"

TargetNames == {"a", "b"}

\* every []string of at most MaxTargets targets, duplicates included
TargetLists == UNION {[1..n -> TargetNames] : n \in 0..MaxTargets}

\* the keys of a map[string]string in the order its iteration yields them: any
\* order, no key twice
KeyLists == {ts \in TargetLists : \A i, j \in 1..Len(ts) : ts[i] = ts[j] => i = j}

\* what time.Now().UnixNano() may return to a submission
ClockReadings == 0..MaxClock

\* the error a per-target action returns: nil, or an error with its message.
\* The three handlers of this package only ever return nil; executeBatch takes
\* any handler, so both outcomes are modelled. An error carries a non-empty
\* message, as every error this package builds does.
NilError == [isNil |-> TRUE, msg |-> ""]
ActionError == [isNil |-> FALSE, msg |-> "target action failed"]
HandlerErrors == {NilError, ActionError}

\* the zero BatchOpResult of make([]BatchOpResult, n)
ZeroResult == [Target |-> "", Success |-> FALSE, Error |-> ""]

\* fmt.Sprintf("batch-%d", time.Now().UnixNano())
generateID(t) == <<"batch-", t>>

\* m[k] = v on a map
MapPut(m, k, v) == [x \in (DOMAIN m) \cup {k} |-> IF x = k THEN v ELSE m[x]]

\* GetOperation: the pointer stored under id (0: nil) and whether there is one
GetOperation(id) ==
    IF id \in DOMAIN operations
    THEN [op |-> operations[id], ok |-> TRUE]
    ELSE [op |-> 0, ok |-> FALSE]

\* ListOperations: the stored pointers, in no order
ListOperations == {operations[id] : id \in DOMAIN operations}

----------------------------------------------------------------------------
(* BatchOperator: operations *)

\* Submit that leaves storing the operation to executeBatch
SubmitWithoutStore(type, targets, t) ==
    LET op == [ID |-> generateID(t), Type |-> type, Targets |-> targets,
               Status |-> BatchOpPending, Results |-> <<>>]
    IN  /\ heap' = Append(heap, op)
        /\ exec' = Append(exec, [pc |-> "start", results |-> <<>>,
                                 semaphore |-> 0, wg |-> 0, tasks |-> <<>>])
        /\ returned' = Append(returned, [op |-> Len(heap) + 1, err |-> NilError])
        /\ UNCHANGED <<workers, operations, tpVars, hmVars>>

\* the part DeleteTags, CopyTags and RetagBatch share: allocate the operation,
\* store it under its id and start executeBatch; t is the clock's reading
Submit(type, targets, t) ==
    LET op == [ID |-> generateID(t), Type |-> type, Targets |-> targets,
               Status |-> BatchOpPending, Results |-> <<>>]
    IN  /\ heap' = Append(heap, op)
        /\ operations' = MapPut(operations, op.ID, Len(heap) + 1)
        /\ exec' = Append(exec, [pc |-> "start", results |-> <<>>,
                                 semaphore |-> 0, wg |-> 0, tasks |-> <<>>])
        /\ returned' = Append(returned, [op |-> Len(heap) + 1, err |-> NilError])
        /\ UNCHANGED <<workers, tpVars, hmVars>>

DeleteTags(tags, t) == Submit(BatchOpDelete, tags, t)

CopyTags(sources, t) == Submit(BatchOpCopy, sources, t)

RetagBatch(targets, t) == targets \in KeyLists /\ Submit(BatchOpTag, targets, t)

\* executeBatch up to wg.Wait(): the status becomes running, results is
\* allocated and one goroutine per target is started (wg.Add(1) each). A
\* goroutine does nothing before its first step, so starting them is not a
\* step of its own. calls counts the invocations of the handler for the target.
ExecStart(h) ==
    /\ exec[h].pc = "start"
    /\ heap' = [heap EXCEPT ![h].Status = BatchOpRunning]
    /\ LET n == Len(heap[h].Targets)
       IN  exec' = [exec EXCEPT ![h] =
                       [pc |-> "wait",
                        results |-> [i \in 1..n |-> ZeroResult],
                        semaphore |-> 0,
                        wg |-> n,
                        tasks |-> [i \in 1..n |->
                                     [pc |-> "acquire", tgt |-> heap[h].Targets[i],
                                      err |-> NilError, calls |-> 0]]]]
    /\ UNCHANGED <<workers, operations, returned, tpVars, hmVars>>

\* TaskAcquire without the wait for a free slot
TaskAcquireUnbounded(h, i) ==
    /\ exec[h].pc = "wait"
    /\ exec[h].tasks[i].pc = "acquire"
    /\ exec' = [exec EXCEPT ![h].semaphore = @ + 1,
                            ![h].tasks[i].pc = "running",
                            ![h].tasks[i].calls = @ + 1]
    /\ UNCHANGED <<workers, heap, operations, returned, tpVars, hmVars>>

\* semaphore <- struct{}{}: blocks while the channel holds bo.workers tokens;
\* the handler is called next
TaskAcquire(h, i) ==
    /\ exec[h].pc = "wait"
    /\ exec[h].tasks[i].pc = "acquire"
    /\ exec[h].semaphore < workers
    /\ exec' = [exec EXCEPT ![h].semaphore = @ + 1,
                            ![h].tasks[i].pc = "running",
                            ![h].tasks[i].calls = @ + 1]
    /\ UNCHANGED <<workers, heap, operations, returned, tpVars, hmVars>>

\* the BatchOpResult a goroutine stores for its target
Result(tgt, err) ==
    [Target |-> tgt, Success |-> err.isNil, Error |-> IF err.isNil THEN "" ELSE err.msg]

\* Slot that fills results in the order the goroutines finish
SlotByCompletion(h, idx) ==
    1 + Cardinality({j \in 1..Len(exec[h].tasks) :
                        exec[h].tasks[j].pc \in {"release", "done"}})

\* the index of results goroutine idx writes: results[idx]
Slot(h, idx) == idx

\* TaskReturn that calls the handler once more after a first error
TaskReturnRetrying(h, i, err) ==
    /\ exec[h].tasks[i].pc = "running"
    /\ exec' = IF ~err.isNil /\ exec[h].tasks[i].calls < 2
               THEN [exec EXCEPT ![h].tasks[i].calls = @ + 1]
               ELSE [exec EXCEPT ![h].results[Slot(h, i)] =
                                     Result(exec[h].tasks[i].tgt, err),
                                 ![h].tasks[i].pc = "release",
                                 ![h].tasks[i].err = err]
    /\ UNCHANGED <<workers, heap, operations, returned, tpVars, hmVars>>

\* the handler returns err and results[idx] is written
TaskReturn(h, i, err) ==
    /\ exec[h].tasks[i].pc = "running"
    /\ exec' = [exec EXCEPT ![h].results[Slot(h, i)] = Result(exec[h].tasks[i].tgt, err),
                            ![h].tasks[i].pc = "release",
                            ![h].tasks[i].err = err]
    /\ UNCHANGED <<workers, heap, operations, returned, tpVars, hmVars>>

\* TaskRelease that keeps its slot of the semaphore
TaskReleaseKeepingSlot(h, i) ==
    /\ exec[h].tasks[i].pc = "release"
    /\ exec' = [exec EXCEPT ![h].wg = @ - 1,
                            ![h].tasks[i].pc = "done"]
    /\ UNCHANGED <<workers, heap, operations, returned, tpVars, hmVars>>

\* the deferred calls: <-semaphore, then wg.Done()
TaskRelease(h, i) ==
    /\ exec[h].tasks[i].pc = "release"
    /\ exec' = [exec EXCEPT ![h].semaphore = @ - 1,
                            ![h].wg = @ - 1,
                            ![h].tasks[i].pc = "done"]
    /\ UNCHANGED <<workers, heap, operations, returned, tpVars, hmVars>>

\* executeBatch after wg.Wait(). bo.mu is held from here to the end, but no
\* reader of an operation holds it while reading the fields: GetOperation and
\* ListOperations hand out the pointer and the submitter keeps the one it was
\* returned, so each store below is visible on its own.
\* op.Results = results
ExecStoreResults(h) ==
    /\ exec[h].pc = "wait"
    /\ exec[h].wg = 0
    /\ heap' = [heap EXCEPT ![h].Results = exec[h].results]
    /\ exec' = [exec EXCEPT ![h].pc = "results"]
    /\ UNCHANGED <<workers, operations, returned, tpVars, hmVars>>

\* op.Status = BatchOpCompleted
ExecStoreCompleted(h) ==
    /\ exec[h].pc = "results"
    /\ heap' = [heap EXCEPT ![h].Status = BatchOpCompleted]
    /\ exec' = [exec EXCEPT ![h].pc = "scan"]
    /\ UNCHANGED <<workers, operations, returned, tpVars, hmVars>>

\* AnyFailed that finds nothing
AnyFailedNever(results) == FALSE

\* AnyFailed that takes a batch without results for a failed one
AnyFailedOrEmpty(results) ==
    results = <<>> \/ \E i \in 1..Len(results) : ~results[i].Success

\* whether the closing loop of executeBatch meets a result that is not a success
AnyFailed(results) == \E i \in 1..Len(results) : ~results[i].Success

\* the loop over results: op.Status = BatchOpFailed at the first failed one
ExecScan(h) ==
    /\ exec[h].pc = "scan"
    /\ heap' = [heap EXCEPT ![h].Status =
                   IF AnyFailed(exec[h].results) THEN BatchOpFailed ELSE @]
    /\ exec' = [exec EXCEPT ![h].pc = "done"]
    /\ UNCHANGED <<workers, operations, returned, tpVars, hmVars>>

----------------------------------------------------------------------------
(* HealthMonitor: values *)

HealthStatusHealthy == "healthy"
HealthStatusDegraded == "degraded"
HealthStatusUnhealthy == "unhealthy"
HealthStatusUnknown == "unknown"

CircuitClosed == "closed"
CircuitHalfOpen == "half_open"
CircuitOpen == "open"

Endpoints == {"e1", "e2"}

\* the endpoint whose circuit is followed through its states
HealthEndpoints == {"e1"}

\* the thresholds and retry delays NewHealthMonitor is given (it takes any)
Thresholds == 0..MaxThreshold
RetryDelays == 0..MaxRetryDelay

\* the zero time.Time, the LastCheck of a record no probe was recorded for;
\* the clock reads later than it
ZeroTime == 0

\* what checkEndpoint returns: nil, or one of its two errors
TimeoutError == [isNil |-> FALSE, msg |-> "health check timeout"]
SimulatedFailure == [isNil |-> FALSE, msg |-> "simulated failure"]
ProbeErrors == {NilError, TimeoutError, SimulatedFailure}

\* a record that starts as healthy
NewHealthCheckHealthy(endpoint) ==
    [Endpoint |-> endpoint, Status |-> HealthStatusHealthy,
     Circuit |-> CircuitClosed, Latency |-> 0, Error |-> "",
     LastCheck |-> ZeroTime, Consecutive |-> 0, Attempts |-> 0]

\* the record Register stores: the fields it does not name are zero
NewHealthCheck(endpoint) ==
    [Endpoint |-> endpoint, Status |-> HealthStatusUnknown,
     Circuit |-> CircuitClosed, Latency |-> 0, Error |-> "",
     LastCheck |-> ZeroTime, Consecutive |-> 0, Attempts |-> 0]

\* the caller of the monitor before any Start() or Stop(); got is what its
\* last GetStatus returned
IdleCaller == [starts |-> 0, stop |-> "idle", got |-> [op |-> "none"]]

\* a monitorEndpoint goroutine that has just been started: it waits in its
\* select; the other fields are the locals of performCheck
NewMonitor(endpoint) ==
    [endpoint |-> endpoint, pc |-> "select", circuit |-> "",
     start |-> ZeroTime, err |-> NilError, latency |-> 0]

\* the endpoints of a map in the order its iteration yields them
RangeOver(m) ==
    CHOOSE q \in [1..Cardinality(DOMAIN m) -> DOMAIN m] :
        \A e \in DOMAIN m : \E i \in 1..Cardinality(DOMAIN m) : q[i] = e

----------------------------------------------------------------------------
(* HealthMonitor: pure functions *)

\* time.Since(t) < d; the time since the zero time is longer than any delay
SinceLess(t, d) == t # ZeroTime /\ now - t < d

\* updateHealth with `>` for `>=`: the circuit opens one failure late
updateHealthStrict(check, err, latency) ==
    LET c == [check EXCEPT !.LastCheck = now, !.Latency = latency,
                           !.Attempts = @ + 1]
    IN  IF ~err.isNil
        THEN LET f == [c EXCEPT !.Error = err.msg, !.Consecutive = @ + 1]
             IN  IF f.Consecutive > threshold
                 THEN [f EXCEPT !.Status = HealthStatusUnhealthy,
                                !.Circuit = CircuitOpen]
                 ELSE IF f.Consecutive > 0
                      THEN [f EXCEPT !.Status = HealthStatusDegraded]
                      ELSE f
        ELSE [c EXCEPT !.Error = "", !.Consecutive = 0,
                       !.Status = HealthStatusHealthy,
                       !.Circuit = CircuitClosed]

\* updateHealth that tells degraded from unhealthy by the circuit instead of
\* the counter
updateHealthByCircuit(check, err, latency) ==
    LET c == [check EXCEPT !.LastCheck = now, !.Latency = latency,
                           !.Attempts = @ + 1]
    IN  IF ~err.isNil
        THEN LET f == [c EXCEPT !.Error = err.msg, !.Consecutive = @ + 1]
             IN  IF f.Consecutive >= threshold
                 THEN [f EXCEPT !.Status =
                                   IF check.Circuit = CircuitClosed
                                   THEN HealthStatusDegraded
                                   ELSE HealthStatusUnhealthy,
                                !.Circuit = CircuitOpen]
                 ELSE IF f.Consecutive > 0
                      THEN [f EXCEPT !.Status = HealthStatusDegraded]
                      ELSE f
        ELSE [c EXCEPT !.Error = "", !.Consecutive = 0,
                       !.Status = HealthStatusHealthy,
                       !.Circuit = CircuitClosed]

\* updateHealth that counts the attempts since the last success
updateHealthResettingAttempts(check, err, latency) ==
    LET c == [check EXCEPT !.LastCheck = now, !.Latency = latency,
                           !.Attempts = @ + 1]
    IN  IF ~err.isNil
        THEN LET f == [c EXCEPT !.Error = err.msg, !.Consecutive = @ + 1]
             IN  IF f.Consecutive >= threshold
                 THEN [f EXCEPT !.Status = HealthStatusUnhealthy,
                                !.Circuit = CircuitOpen]
                 ELSE IF f.Consecutive > 0
                      THEN [f EXCEPT !.Status = HealthStatusDegraded]
                      ELSE f
        ELSE [c EXCEPT !.Error = "", !.Consecutive = 0, !.Attempts = 0,
                       !.Status = HealthStatusHealthy,
                       !.Circuit = CircuitClosed]

\* the record updateHealth leaves, from the record it finds
updateHealth(check, err, latency) ==
    LET c == [check EXCEPT !.LastCheck = now, !.Latency = latency,
                           !.Attempts = @ + 1]
    IN  IF ~err.isNil
        THEN LET f == [c EXCEPT !.Error = err.msg, !.Consecutive = @ + 1]
             IN  IF f.Consecutive >= threshold
                 THEN [f EXCEPT !.Status = HealthStatusUnhealthy,
                                !.Circuit = CircuitOpen]
                 ELSE IF f.Consecutive > 0
                      THEN [f EXCEPT !.Status = HealthStatusDegraded]
                      ELSE f
        ELSE [c EXCEPT !.Error = "", !.Consecutive = 0,
                       !.Status = HealthStatusHealthy,
                       !.Circuit = CircuitClosed]

\* updateCircuit that starts a fresh count of failures
updateCircuitResetting(check, state) ==
    [check EXCEPT !.Circuit = state, !.Consecutive = 0]

\* the record updateCircuit leaves
updateCircuit(check, state) == [check EXCEPT !.Circuit = state]

----------------------------------------------------------------------------
(* HealthMonitor: operations *)
(* hm.mu is held only around in-memory reads and writes that never block,  *)
(* so each critical section is one step.                                   *)

\* Register without the look-up: the record is stored anew at every call
RegisterResetting(endpoint) ==
    /\ checks' = MapPut(checks, endpoint, NewHealthCheck(endpoint))
    /\ UNCHANGED <<threshold, retryDelay, ctxDone, hmWg, monitors, caller, now>>
    /\ UNCHANGED <<tpVars, boVars>>

\* Register that, on a started monitor, also starts a goroutine for the new
\* endpoint
RegisterLaunching(endpoint) ==
    /\ checks' = IF endpoint \in DOMAIN checks THEN checks
                 ELSE MapPut(checks, endpoint, NewHealthCheck(endpoint))
    /\ IF endpoint \notin DOMAIN checks /\ caller.starts > 0
       THEN /\ monitors' = Append(monitors, NewMonitor(endpoint))
            /\ hmWg' = hmWg + 1
       ELSE UNCHANGED <<hmWg, monitors>>
    /\ UNCHANGED <<threshold, retryDelay, ctxDone, caller, now>>
    /\ UNCHANGED <<tpVars, boVars>>

\* Register: a new record unless the endpoint has one
Register(endpoint) ==
    /\ checks' = IF endpoint \in DOMAIN checks THEN checks
                 ELSE MapPut(checks, endpoint, NewHealthCheck(endpoint))
    /\ UNCHANGED <<threshold, retryDelay, ctxDone, hmWg, monitors, caller, now>>
    /\ UNCHANGED <<tpVars, boVars>>

\* Start: wg.Add(1) and one monitorEndpoint goroutine per record of hm.checks
Start ==
    /\ LET q == RangeOver(checks)
       IN  /\ monitors' = monitors \o [i \in 1..Len(q) |-> NewMonitor(q[i])]
           /\ hmWg' = hmWg + Len(q)
    /\ caller' = [caller EXCEPT !.starts = @ + 1]
    /\ UNCHANGED <<threshold, retryDelay, checks, ctxDone, now>>
    /\ UNCHANGED <<tpVars, boVars>>

\* GetStatus: the pointer to the endpoint's record (the endpoint stands for
\* it) and whether there is one
GetStatus(endpoint) ==
    /\ caller' = [caller EXCEPT !.got =
                     [op |-> "GetStatus", endpoint |-> endpoint,
                      ok |-> endpoint \in DOMAIN checks]]
    /\ UNCHANGED <<threshold, retryDelay, checks, ctxDone, hmWg, monitors, now>>
    /\ UNCHANGED <<tpVars, boVars>>

\* GetAllStatuses: a new map with, for every endpoint of hm.checks, the
\* pointer to its record (the endpoint stands for it)
GetAllStatuses ==
    /\ caller' = [caller EXCEPT !.got =
                     [op |-> "GetAllStatuses",
                      statuses |-> [e \in DOMAIN checks |-> e]]]
    /\ UNCHANGED <<threshold, retryDelay, checks, ctxDone, hmWg, monitors, now>>
    /\ UNCHANGED <<tpVars, boVars>>

\* Stop up to wg.Wait(): hm.cancel()
StopCancel ==
    /\ caller.stop = "idle"
    /\ ctxDone' = TRUE
    /\ caller' = [caller EXCEPT !.stop = "waiting"]
    /\ UNCHANGED <<threshold, retryDelay, checks, hmWg, monitors, now>>
    /\ UNCHANGED <<tpVars, boVars>>

\* Stop that returns without waiting for the goroutines
StopReturnAtOnce ==
    /\ caller.stop = "waiting"
    /\ caller' = [caller EXCEPT !.stop = "returned"]
    /\ UNCHANGED <<threshold, retryDelay, checks, ctxDone, hmWg, monitors, now>>
    /\ UNCHANGED <<tpVars, boVars>>

\* Stop from wg.Wait() on: it returns when the counter is zero
StopReturn ==
    /\ caller.stop = "waiting"
    /\ hmWg = 0
    /\ caller' = [caller EXCEPT !.stop = "returned"]
    /\ UNCHANGED <<threshold, retryDelay, checks, ctxDone, hmWg, monitors, now>>
    /\ UNCHANGED <<tpVars, boVars>>

\* monitorEndpoint, case <-ticker.C: performCheck is entered, its locals fresh
MonitorTick(m) ==
    /\ monitors[m].pc = "select"
    /\ monitors' = [monitors EXCEPT ![m] =
                       [NewMonitor(monitors[m].endpoint) EXCEPT !.pc = "check"]]
    /\ UNCHANGED <<threshold, retryDelay, checks, ctxDone, hmWg, caller, now>>
    /\ UNCHANGED <<tpVars, boVars>>

\* MonitorDone that leaves the wait group as it is
MonitorDoneNoSignal(m) ==
    /\ monitors[m].pc = "select"
    /\ ctxDone
    /\ monitors' = [monitors EXCEPT ![m].pc = "exited"]
    /\ UNCHANGED <<threshold, retryDelay, checks, ctxDone, hmWg, caller, now>>
    /\ UNCHANGED <<tpVars, boVars>>

\* monitorEndpoint, case <-hm.ctx.Done(): return, and the deferred wg.Done()
MonitorDone(m) ==
    /\ monitors[m].pc = "select"
    /\ ctxDone
    /\ monitors' = [monitors EXCEPT ![m].pc = "exited"]
    /\ hmWg' = hmWg - 1
    /\ UNCHANGED <<threshold, retryDelay, checks, ctxDone, caller, now>>
    /\ UNCHANGED <<tpVars, boVars>>

\* PerformCheck that probes whatever the circuit is
PerformCheckNoSkip(m) ==
    /\ monitors[m].pc = "check"
    /\ monitors' = [monitors EXCEPT ![m].circuit = checks[monitors[m].endpoint].Circuit,
                                    ![m].pc = "probe",
                                    ![m].start = now]
    /\ UNCHANGED <<threshold, retryDelay, checks, ctxDone, hmWg, caller, now>>
    /\ UNCHANGED <<tpVars, boVars>>

\* PerformCheck that probes an open circuit as it is once the retry delay
\* has passed
PerformCheckRetryingOpen(m) ==
    /\ monitors[m].pc = "check"
    /\ LET check == checks[monitors[m].endpoint]
       IN  monitors' =
             IF check.Circuit = CircuitOpen /\ SinceLess(check.LastCheck, retryDelay)
             THEN [monitors EXCEPT ![m].circuit = check.Circuit,
                                   ![m].pc = "select"]
             ELSE [monitors EXCEPT ![m].circuit = check.Circuit,
                                   ![m].pc = "probe",
                                   ![m].start = now]
    /\ UNCHANGED <<threshold, retryDelay, checks, ctxDone, hmWg, caller, now>>
    /\ UNCHANGED <<tpVars, boVars>>

\* PerformCheck that keeps hm.mu until updateHealth: it waits while another
\* goroutine is between its look-up and the end of its probe
PerformCheckHoldingLock(m) ==
    /\ monitors[m].pc = "check"
    /\ \A n \in 1..Len(monitors) :
          n # m => monitors[n].pc \notin {"halfopen", "probe", "update"}
    /\ LET check == checks[monitors[m].endpoint]
       IN  monitors' =
             IF check.Circuit = CircuitOpen
             THEN IF SinceLess(check.LastCheck, retryDelay)
                  THEN [monitors EXCEPT ![m].circuit = check.Circuit,
                                        ![m].pc = "select"]
                  ELSE [monitors EXCEPT ![m].circuit = check.Circuit,
                                        ![m].pc = "halfopen"]
             ELSE [monitors EXCEPT ![m].circuit = check.Circuit,
                                   ![m].pc = "probe",
                                   ![m].start = now]
    /\ UNCHANGED <<threshold, retryDelay, checks, ctxDone, hmWg, caller, now>>
    /\ UNCHANGED <<tpVars, boVars>>

\* performCheck up to the probe: the record is looked up and its circuit
\* read; on an open circuit the tick is skipped (return) while the retry delay
\* has not elapsed, else the circuit is to be moved to half-open; on any other
\* circuit the probe starts (start := time.Now())
PerformCheck(m) ==
    /\ monitors[m].pc = "check"
    /\ LET check == checks[monitors[m].endpoint]
       IN  monitors' =
             IF check.Circuit = CircuitOpen
             THEN IF SinceLess(check.LastCheck, retryDelay)
                  THEN [monitors EXCEPT ![m].circuit = check.Circuit,
                                        ![m].pc = "select"]
                  ELSE [monitors EXCEPT ![m].circuit = check.Circuit,
                                        ![m].pc = "halfopen"]
             ELSE [monitors EXCEPT ![m].circuit = check.Circuit,
                                   ![m].pc = "probe",
                                   ![m].start = now]
    /\ UNCHANGED <<threshold, retryDelay, checks, ctxDone, hmWg, caller, now>>
    /\ UNCHANGED <<tpVars, boVars>>

\* performCheck: hm.updateCircuit(endpoint, CircuitHalfOpen), then the probe
\* starts (start := time.Now())
MoveToHalfOpen(m) ==
    /\ monitors[m].pc = "halfopen"
    /\ checks' = [checks EXCEPT ![monitors[m].endpoint] =
                     updateCircuit(@, CircuitHalfOpen)]
    /\ monitors' = [monitors EXCEPT ![m].pc = "probe", ![m].start = now]
    /\ UNCHANGED <<threshold, retryDelay, ctxDone, hmWg, caller, now>>
    /\ UNCHANGED <<tpVars, boVars>>

\* checkEndpoint returns err: its select takes ctx.Done() (hm.ctx cancelled
\* or the timeout over) or the timer, which of them is ready first is the
\* scheduler's and the clock's choice; latency := time.Since(start)
CheckEndpoint(m, err) ==
    /\ monitors[m].pc = "probe"
    /\ monitors' = [monitors EXCEPT ![m].err = err,
                                    ![m].latency = now - monitors[m].start,
                                    ![m].pc = "update"]
    /\ UNCHANGED <<threshold, retryDelay, checks, ctxDone, hmWg, caller, now>>
    /\ UNCHANGED <<tpVars, boVars>>

\* performCheck: hm.updateHealth(endpoint, err, latency), and back to the select
UpdateHealth(m) ==
    /\ monitors[m].pc = "update"
    /\ checks' = [checks EXCEPT ![monitors[m].endpoint] =
                     updateHealth(@, monitors[m].err, monitors[m].latency)]
    /\ monitors' = [monitors EXCEPT ![m].pc = "select"]
    /\ UNCHANGED <<threshold, retryDelay, ctxDone, hmWg, caller, now>>
    /\ UNCHANGED <<tpVars, boVars>>

\* time passes
Advance ==
    /\ now' = now + 1
    /\ UNCHANGED <<threshold, retryDelay, checks, ctxDone, hmWg, monitors, caller>>
    /\ UNCHANGED <<tpVars, boVars>>

----------------------------------------------------------------------------
(* TagProtection: properties *)

\* the indices of the policies whose pattern matches the reference
Matching(ps, ref) == {i \in 1..Len(ps) : MatchString(ps[i].Pattern, ref)}

\* the matching policy of highest priority, the earliest among equals
IsDecider(ps, ref, i) ==
    /\ i \in Matching(ps, ref)
    /\ \A j \in Matching(ps, ref) :
          \/ ps[j].Priority < ps[i].Priority
          \/ (ps[j].Priority = ps[i].Priority /\ i <= j)

Allowed == [allowed |-> TRUE, reason |-> NoReason]
LastRef == TagRef(last.repository, last.tag)
Reverse(ps) == [i \in 1..Len(ps) |-> ps[Len(ps) + 1 - i]]

\* C1: CanModify decides by exactly one policy: among the policies matching
\* the reference the one of highest priority, the earliest inserted among
\* equal priorities; its answer is the answer that policy gives alone. With no
\* match the answer is (allowed, ""). Two matching policies of different
\* priorities give the same answer in either insertion order.
C1_HighestPriorityDecides ==
    last.op = "CanModify" =>
        /\ Matching(policies, LastRef) = {} => last.ret = Allowed
        /\ \A i \in 1..Len(policies) :
              IsDecider(policies, LastRef, i) =>
                  last.ret = CanModify(<<policies[i]>>, last.repository,
                                       last.tag, last.age)
        /\ (/\ Len(policies) = 2
            /\ Matching(policies, LastRef) = {1, 2}
            /\ policies[1].Priority # policies[2].Priority)
           => last.ret = CanModify(Reverse(policies), last.repository,
                                   last.tag, last.age)

\* C1's case: two matching policies that answer differently, the later one of
\* higher priority, and the later one's answer returned
C1_Witness ==
    /\ last.op = "CanModify"
    /\ Len(policies) = 2
    /\ Matching(policies, LastRef) = {1, 2}
    /\ policies[1].Priority < policies[2].Priority
    /\ policies[1].Immutable /\ ~policies[2].Immutable /\ policies[2].MaxAge = 0
    /\ last.ret = Allowed

\* C2 as stated: whenever some matching policy is immutable, CanModify returns
\* not-allowed and the reason names that policy.
C2_AnyImmutableBlocks ==
    last.op = "CanModify" =>
        \A i \in Matching(policies, LastRef) :
            policies[i].Immutable =>
                /\ ~last.ret.allowed
                /\ last.ret.reason.policy = policies[i].Name

\* C2 amended: when the deciding policy (highest priority among the matches,
\* earliest among equals) is immutable, CanModify returns not-allowed, at any
\* age, and the reason is the immutability reason naming that policy.
C2_DecidingImmutableBlocks ==
    last.op = "CanModify" =>
        \A i \in 1..Len(policies) :
            (IsDecider(policies, LastRef, i) /\ policies[i].Immutable) =>
                /\ ~last.ret.allowed
                /\ last.ret.reason = ImmutableReason(policies[i].Name)

\* C2's case: an immutable policy with an age window that has passed decides,
\* next to a matching policy that is not immutable
C2_Witness ==
    /\ last.op = "CanModify"
    /\ Len(policies) = 2
    /\ Matching(policies, LastRef) = {1, 2}
    /\ IsDecider(policies, LastRef, 2)
    /\ policies[2].Immutable /\ policies[2].MaxAge > 0
    /\ last.age >= policies[2].MaxAge
    /\ ~policies[1].Immutable
    /\ policies[1].Name # policies[2].Name
    /\ ~last.ret.allowed

\* C3: when exactly one policy matches and it is not immutable, CanModify
\* returns not-allowed iff MaxAge > 0 and age < MaxAge: age = MaxAge is
\* allowed, and MaxAge = 0 never blocks.
C3_AgeWindow ==
    last.op = "CanModify" =>
        \A i \in 1..Len(policies) :
            (Matching(policies, LastRef) = {i} /\ ~policies[i].Immutable) =>
                /\ policies[i].MaxAge > 0 =>
                      (~last.ret.allowed <=> last.age < policies[i].MaxAge)
                /\ policies[i].MaxAge = 0 => last.ret.allowed
                /\ last.age = policies[i].MaxAge => last.ret.allowed

\* C3's case: the only matching policy has an age window and the age equals it
C3_Witness ==
    /\ last.op = "CanModify"
    /\ \E i \in 1..Len(policies) :
          /\ Matching(policies, LastRef) = {i}
          /\ ~policies[i].Immutable
          /\ policies[i].MaxAge > 0
          /\ last.age = policies[i].MaxAge
    /\ Len(policies) = 2
    /\ last.ret.allowed

\* the matching policies that forbid deletion
Vetoes(ps, ref) == {i \in Matching(ps, ref) : ~ps[i].AllowDelete}

\* C4: CanDelete returns not-allowed iff some matching policy has AllowDelete
\* false, whatever the priorities; the reason names the first such policy in
\* insertion order, and is empty when the delete is allowed.
C4_FirstVetoWins ==
    last.op = "CanDelete" =>
        LET V == Vetoes(policies, LastRef)
        IN  /\ last.ret.allowed <=> V = {}
            /\ V = {} => last.ret.reason = NoReason
            /\ \A i \in V :
                  (\A j \in V : i <= j) =>
                      last.ret.reason = DeleteReason(policies[i].Name)

\* C4's case: a matching policy of higher priority, inserted first, allows the
\* delete, a later one of lower priority forbids it, and the delete is refused
C4_Witness ==
    /\ last.op = "CanDelete"
    /\ Len(policies) = 2
    /\ Matching(policies, LastRef) = {1, 2}
    /\ policies[1].AllowDelete /\ ~policies[2].AllowDelete
    /\ policies[1].Priority > policies[2].Priority
    /\ policies[1].Name # policies[2].Name
    /\ ~last.ret.allowed
    /\ last.ret.reason.policy = policies[2].Name

\* C5: AddPolicy with a nil pattern returns an error and leaves the collection
\* as it was; with a pattern it returns no error and the collection is the old
\* one with the policy appended, also when the name is already there.
C5_AddAppends ==
    [][last'.op = "AddPolicy" =>
          IF last'.policy.Pattern.isNil
          THEN last'.err /\ policies' = policies
          ELSE /\ ~last'.err
               /\ Len(policies') = Len(policies) + 1
               /\ \A i \in 1..Len(policies) : policies'[i] = policies[i]
               /\ policies'[Len(policies')] = last'.policy]_vars

\* C5's case: a policy was appended behind an earlier one of the same name
C5_Witness ==
    /\ last.op = "AddPolicy"
    /\ ~last.err
    /\ Len(policies) >= 3
    /\ policies[Len(policies)] = last.policy
    /\ \E i \in 1..(Len(policies) - 1) :
          /\ policies[i].Name = last.policy.Name
          /\ policies[i] # last.policy

\* the collection without its k-th policy
Without(ps, k) == [i \in 1..(Len(ps) - 1) |-> IF i < k THEN ps[i] ELSE ps[i + 1]]

\* C6: RemovePolicy(name) returns true and removes exactly the first policy of
\* that name, all others keeping their order; when no policy has the name it
\* returns false and the collection is as it was.
C6_RemoveFirstNamed ==
    [][last'.op = "RemovePolicy" =>
          LET S == {i \in 1..Len(policies) : policies[i].Name = last'.name}
          IN  IF S = {}
              THEN ~last'.ret /\ policies' = policies
              ELSE /\ last'.ret
                   /\ \A k \in S :
                         (\A j \in S : k <= j) => policies' = Without(policies, k)]_vars

\* C6's case: a policy was removed, a later policy of the same name is still
\* there, and policies of the other name stand on both sides of it
C6_Witness ==
    /\ last.op = "RemovePolicy"
    /\ last.ret
    /\ Len(policies) = 3
    /\ policies[1].Name # last.name
    /\ policies[2].Name = last.name
    /\ policies[3].Name # last.name
    /\ policies[1] # policies[3]

----------------------------------------------------------------------------
(* BatchOperator: properties *)

Terminal == {BatchOpCompleted, BatchOpFailed}

\* C7: once a batch's status is completed or failed, its results are as many
\* as its targets and results[i].Target = Targets[i] at every index, in
\* whatever order the per-target goroutines finished.
C7_ResultsFollowTargets ==
    \A h \in 1..Len(heap) :
        heap[h].Status \in Terminal =>
            /\ Len(heap[h].Results) = Len(heap[h].Targets)
            /\ \A i \in 1..Len(heap[h].Targets) :
                  heap[h].Results[i].Target = heap[h].Targets[i]

\* C7's case: a finished batch of three targets, one of them twice, run by
\* two workers
C7_Witness ==
    \E h \in 1..Len(heap) :
        /\ heap[h].Status \in Terminal
        /\ heap[h].Targets = <<"a", "b", "a">>
        /\ Len(heap[h].Results) = 3
        /\ workers = 2

\* the targets whose action returned an error
FailedTasks(h) == {i \in 1..Len(exec[h].tasks) : ~exec[h].tasks[i].err.isNil}

\* C8: when executeBatch has ended, the status is completed iff every action
\* returned nil and failed iff some action returned an error; each result's
\* Success says whether its own action returned nil, with an empty Error on
\* success and a non-empty one on failure. With exactly one failing action
\* the status is failed and all other results are successes.
C8_FinalStatus ==
    \A h \in 1..Len(heap) :
        exec[h].pc = "done" =>
            /\ heap[h].Status = BatchOpCompleted <=> FailedTasks(h) = {}
            /\ heap[h].Status = BatchOpFailed <=> FailedTasks(h) # {}
            /\ \A i \in 1..Len(heap[h].Targets) :
                  /\ heap[h].Results[i].Success <=> i \notin FailedTasks(h)
                  /\ heap[h].Results[i].Error = "" <=> i \notin FailedTasks(h)
            /\ \A f \in FailedTasks(h) :
                  FailedTasks(h) = {f} =>
                      /\ heap[h].Status = BatchOpFailed
                      /\ ~heap[h].Results[f].Success
                      /\ heap[h].Results[f].Error # ""
                      /\ \A i \in 1..Len(heap[h].Targets) :
                            i # f => heap[h].Results[i].Success

\* C8's case: a batch of three targets has ended with exactly one failure
C8_Witness ==
    \E h \in 1..Len(heap) :
        /\ exec[h].pc = "done"
        /\ Len(heap[h].Targets) = 3
        /\ Cardinality(FailedTasks(h)) = 1
        /\ heap[h].Status = BatchOpFailed

\* the goroutines whose action is executing, and those holding a slot
Executing(h) == {i \in 1..Len(exec[h].tasks) : exec[h].tasks[i].pc = "running"}
Holding(h) ==
    {i \in 1..Len(exec[h].tasks) : exec[h].tasks[i].pc \in {"running", "release"}}

\* C9: within a batch at most workers actions execute at a time: a goroutine
\* holds a slot of the semaphore from before its action starts until after it
\* has returned, with or without an error, and the semaphore never holds more
\* than workers slots.
C9_AdmissionGate ==
    \A h \in 1..Len(heap) :
        /\ Cardinality(Executing(h)) <= workers
        /\ exec[h].semaphore = Cardinality(Holding(h))
        /\ exec[h].semaphore <= workers

\* C9's case: more targets than workers; every slot is taken, one of them by
\* a goroutine whose action has failed, and another goroutine is waiting
C9_Witness ==
    \E h \in 1..Len(heap) :
        /\ Len(exec[h].tasks) > workers
        /\ exec[h].semaphore = workers
        /\ workers = 2
        /\ \E i, j, k \in 1..Len(exec[h].tasks) :
              /\ exec[h].tasks[i].pc = "running"
              /\ exec[h].tasks[j].pc = "release"
              /\ ~exec[h].tasks[j].err.isNil
              /\ exec[h].tasks[k].pc = "acquire"

\* the status changes the lifecycle allows
StatusStep(from, to) ==
    \/ from = to
    \/ from = BatchOpPending /\ to = BatchOpRunning
    \/ from = BatchOpRunning /\ to \in Terminal

\* C10: the status of an operation only moves pending -> running ->
\* (completed | failed), completed and failed are never left, and the results
\* are empty whenever the status is pending or running.
C10_StatusLifecycle ==
    [][\A h \in 1..Len(heap) :
          /\ StatusStep(heap[h].Status, heap'[h].Status)
          /\ heap'[h].Status \in {BatchOpPending, BatchOpRunning} =>
                heap'[h].Results = <<>>]_vars

\* the batches that share their id with another batch
SharedIds == {h \in 1..Len(heap) : \E g \in 1..Len(heap) : g # h /\ heap[g].ID = heap[h].ID}

\* C11: any two submissions to one executor get different ids, whatever the
\* clock reads: after k submissions ListOperations returns k entries and
\* GetOperation finds each operation under its own id; no submission replaces
\* the stored record of an earlier one.
C11_DistinctIds ==
    /\ SharedIds = {}
    /\ Cardinality(ListOperations) = Len(heap)
    /\ \A h \in 1..Len(heap) : GetOperation(heap[h].ID) = [op |-> h, ok |-> TRUE]

\* C12: a submitted batch on an executor with at least one worker, whose
\* actions all return, reaches the end of executeBatch with status completed
\* or failed, whatever the number of targets.
C12_BatchTerminates ==
    (Len(heap) >= 1) ~>
        (Len(heap) >= 1 /\ exec[1].pc = "done" /\ heap[1].Status \in Terminal)

\* C12's case: a batch of three targets has ended on an executor of one worker
C12_Witness ==
    /\ Len(heap) = 1
    /\ workers = 1
    /\ Len(heap[1].Targets) = 3
    /\ exec[1].pc = "done"
    /\ heap[1].Status \in Terminal

\* C13: in every batch the handler is invoked exactly once per target: never
\* before the goroutine has its slot, exactly once from then on, and once for
\* every target when executeBatch has ended, whether or not other targets
\* (or this one) failed.
C13_EachTargetOnce ==
    \A h \in 1..Len(heap) :
        /\ \A i \in 1..Len(exec[h].tasks) :
              exec[h].tasks[i].calls =
                  IF exec[h].tasks[i].pc = "acquire" THEN 0 ELSE 1
        /\ exec[h].pc \in {"results", "scan", "done"} =>
              /\ Len(exec[h].tasks) = Len(heap[h].Targets)
              /\ \A i \in 1..Len(heap[h].Targets) :
                    /\ exec[h].tasks[i].calls = 1
                    /\ exec[h].tasks[i].tgt = heap[h].Targets[i]

\* C13's case: the first of three targets failed before the others were
\* started, and the batch has ended with every handler called once
C13_Witness ==
    \E h \in 1..Len(heap) :
        /\ exec[h].pc = "done"
        /\ workers = 1
        /\ Len(heap[h].Targets) = 3
        /\ FailedTasks(h) = {1}
        /\ \A i \in 1..3 : exec[h].tasks[i].calls = 1
        /\ heap[h].Results[2].Success /\ heap[h].Results[3].Success

----------------------------------------------------------------------------
(* HealthMonitor: properties *)

\* a probe result is recorded for the endpoint in this step
Recorded(e) == checks'[e].Attempts = checks[e].Attempts + 1
RecordedFailure(e) == Recorded(e) /\ checks'[e].Error # ""
RecordedSuccess(e) == Recorded(e) /\ checks'[e].Error = ""

\* monitor m moves in this step
Moves(m) == monitors'[m] # monitors[m]

\* C15: consecutive counts the failed probes since the last success, and the
\* failure that brings it to threshold (or beyond) leaves the circuit open;
\* an open circuit is moved to half-open, and probed, only when retryDelay has
\* passed since the last check, and the success of a probe leaves the circuit
\* closed and consecutive at 0.
C15_OpenThenRecover ==
    [][\A e \in DOMAIN checks :
          /\ RecordedFailure(e) =>
                /\ checks'[e].Consecutive = checks[e].Consecutive + 1
                /\ checks'[e].Consecutive >= threshold =>
                      checks'[e].Circuit = CircuitOpen
          /\ (checks[e].Circuit = CircuitOpen /\ checks'[e].Circuit # CircuitOpen) =>
                /\ checks'[e].Circuit = CircuitHalfOpen
                /\ ~SinceLess(checks[e].LastCheck, retryDelay)
          /\ RecordedSuccess(e) =>
                /\ checks'[e].Circuit = CircuitClosed
                /\ checks'[e].Consecutive = 0]_vars

\* C15's case: with threshold 2 the circuit was opened by two failures, found
\* open by a later tick, probed, and the probe's success has closed it
C15_Witness ==
    \E m \in 1..Len(monitors) :
        /\ threshold = 2
        /\ retryDelay = 1
        /\ monitors[m].pc = "select"
        /\ monitors[m].circuit = CircuitOpen
        /\ monitors[m].start # ZeroTime
        /\ monitors[m].err = NilError
        /\ checks[monitors[m].endpoint].Circuit = CircuitClosed
        /\ checks[monitors[m].endpoint].Consecutive = 0
        /\ checks[monitors[m].endpoint].Attempts = 3

C17_SkippedTick ==
    /\ [](\A m \in 1..Len(monitors) :
            monitors[m].pc \in {"probe", "update"} =>
                /\ checks[monitors[m].endpoint].Circuit # CircuitOpen
                /\ monitors[m].circuit = CircuitOpen =>
                      checks[monitors[m].endpoint].Circuit = CircuitHalfOpen)
    /\ [][\A m \in 1..Len(monitors) :
            LET e == monitors[m].endpoint
            IN  (/\ monitors[m].pc = "check"
                 /\ checks[e].Circuit = CircuitOpen
                 /\ Moves(m)) =>
                    IF SinceLess(checks[e].LastCheck, retryDelay)
                    THEN /\ monitors'[m].pc = "select"
                         /\ monitors'[m].start = ZeroTime
                         /\ checks'[e] = checks[e]
                    ELSE /\ monitors'[m].pc = "halfopen"
                         /\ checks'[e] = checks[e]]_vars

\* C17's case: the last tick found the circuit open within the retry delay
\* and was skipped: the task is back in its select without having probed
C17_Witness ==
    \E m \in 1..Len(monitors) :
        /\ monitors[m].pc = "select"
        /\ monitors[m].circuit = CircuitOpen
        /\ monitors[m].start = ZeroTime
        /\ checks[monitors[m].endpoint].Circuit = CircuitOpen
        /\ SinceLess(checks[monitors[m].endpoint].LastCheck, retryDelay)
        /\ checks[monitors[m].endpoint].Attempts = 2

\* the status the counters stand for
StatusOf(attempts, consecutive, th) ==
    IF attempts = 0 THEN HealthStatusUnknown
    ELSE IF consecutive = 0 THEN HealthStatusHealthy
    ELSE IF consecutive < th THEN HealthStatusDegraded
    ELSE HealthStatusUnhealthy

\* C18: in every reachable state the status of a record is the one its
\* attempts, consecutive and the threshold stand for: unknown with no probe
\* recorded, healthy after a success (consecutive 0), degraded with
\* 1 <= consecutive < threshold, unhealthy with consecutive >= threshold;
\* the circuit plays no part.
C18_StatusFromCounters ==
    \A e \in DOMAIN checks :
        /\ checks[e].Status =
              StatusOf(checks[e].Attempts, checks[e].Consecutive, threshold)
        /\ checks[e].Attempts = 0 => checks[e].Consecutive = 0
        /\ checks[e].Consecutive >= 0

\* C18's case: with threshold 2, a failure after a success: degraded, closed
C18_Witness ==
    \E e \in DOMAIN checks :
        /\ threshold = 2
        /\ checks[e].Attempts = 2
        /\ checks[e].Consecutive = 1
        /\ checks[e].Status = HealthStatusDegraded
        /\ checks[e].Circuit = CircuitClosed

\* C19: when Stop() has returned every monitorEndpoint goroutine has exited
\* (none waits for a tick, none is inside performCheck), and from then on no
\* record of an endpoint changes.
C19_StopWaits ==
    /\ [](caller.stop = "returned" =>
            \A m \in 1..Len(monitors) : monitors[m].pc = "exited")
    /\ [][caller.stop = "returned" =>
            /\ monitors' = monitors
            /\ \A e \in DOMAIN checks : checks'[e] = checks[e]]_vars

\* C19's case: Stop() has returned on a monitor of two endpoints that has
\* recorded probes for both
C19_Witness ==
    /\ caller.stop = "returned"
    /\ Len(monitors) = 2
    /\ \A m \in 1..2 : monitors[m].pc = "exited"
    /\ \A e \in Endpoints : e \in DOMAIN checks /\ checks[e].Attempts > 0

\* C20: once Stop() has cancelled the context it returns.
C20_StopReturns == (caller.stop = "waiting") ~> (caller.stop = "returned")

\* C20's case: Stop() has returned; one task was skipping a tick on an open
\* circuit when it last ran, the other's last probe ended by the cancelled
\* context
C20_Witness ==
    /\ caller.stop = "returned"
    /\ Len(monitors) = 2
    /\ \E m, n \in 1..2 :
          /\ monitors[m].circuit = CircuitOpen
          /\ monitors[m].start = ZeroTime
          /\ monitors[n].err = TimeoutError
          /\ checks[monitors[n].endpoint].Error = TimeoutError.msg

\* the monitorEndpoint goroutines started for the endpoint
Tasks(e) == {m \in 1..Len(monitors) : monitors[m].endpoint = e}

\* this step is a call of Start()
StartStep == caller'.starts = caller.starts + 1

\* C21: a call of Start() starts one goroutine for every endpoint registered
\* at that moment and none for any other, and no other step starts one; so an
\* endpoint registered after the call has no goroutine (while Start() is not
\* called again), is never probed, and its record stays as Register made it:
\* status unknown, circuit closed, attempts 0.
C21_StartLaunchesRegistered ==
    /\ [][/\ Len(monitors') >= Len(monitors)
          /\ \A m \in 1..Len(monitors) :
                monitors'[m].endpoint = monitors[m].endpoint
          /\ IF StartStep
             THEN \A e \in Endpoints :
                     Cardinality({m \in (Len(monitors) + 1)..Len(monitors') :
                                     monitors'[m].endpoint = e})
                        = IF e \in DOMAIN checks THEN 1 ELSE 0
             ELSE Len(monitors') = Len(monitors)]_vars
    /\ [](\A e \in DOMAIN checks :
            Tasks(e) = {} =>
                /\ checks[e].Status = HealthStatusUnknown
                /\ checks[e].Circuit = CircuitClosed
                /\ checks[e].Attempts = 0
                /\ checks[e].LastCheck = ZeroTime)

\* C21's case: Start() was called with e1 registered and e2 was registered
\* afterwards: e1 has been probed twice, e2 has no goroutine and a record no
\* probe has touched
C21_Witness ==
    /\ caller.starts = 1
    /\ DOMAIN checks = Endpoints
    /\ Len(monitors) = 1
    /\ monitors[1].endpoint = "e1"
    /\ checks["e1"].Attempts = 2
    /\ Tasks("e2") = {}
    /\ checks["e2"].Status = HealthStatusUnknown
    /\ checks["e2"].Attempts = 0

\* C22: a step that is a call of Register for an endpoint that has a record
\* changes nothing: the record keeps its status, circuit, consecutive and
\* attempts, whatever probes it holds, and the registered endpoints are the
\* same. Records are never removed, and a record changes only in a step of a
\* goroutine started for its endpoint.
C22_RegisterIdempotent ==
    [][\A e \in DOMAIN checks :
          /\ Register(e) => UNCHANGED vars
          /\ e \in DOMAIN checks'
          /\ checks'[e] # checks[e] => \E m \in Tasks(e) : Moves(m)]_vars

\* C22's case: both endpoints are registered, e1's record holds two failed
\* probes and an open circuit, and Register(e1) is called: the call leaves the
\* records as they are
C22_Witness ==
    /\ DOMAIN checks = Endpoints
    /\ checks["e1"].Attempts = 2
    /\ checks["e1"].Consecutive = 2
    /\ checks["e1"].Circuit = CircuitOpen
    /\ checks["e1"].Status = HealthStatusUnhealthy
    /\ ENABLED (Register("e1") /\ checks' = checks)

\* C23: while no probe result is recorded for a registered endpoint
\* (attempts 0) its record reads status unknown, circuit closed, consecutive 0
\* and no error; and a registered endpoint is found by the readers: a
\* GetStatus call returns its record and ok exactly when the endpoint is
\* registered, a GetAllStatuses call returns one entry per registered
\* endpoint, each the endpoint's own record.
C23_FreshUntilProbed ==
    /\ [](\A e \in DOMAIN checks :
            /\ checks[e].Endpoint = e
            /\ checks[e].Attempts = 0 =>
                  /\ checks[e].Status = HealthStatusUnknown
                  /\ checks[e].Circuit = CircuitClosed
                  /\ checks[e].Consecutive = 0
                  /\ checks[e].Error = ""
                  /\ checks[e].LastCheck = ZeroTime)
    /\ [][caller'.got # caller.got =>
            /\ caller'.got.op \in {"GetStatus", "GetAllStatuses"}
            /\ caller'.got.op = "GetStatus" =>
                  caller'.got.ok = (caller'.got.endpoint \in DOMAIN checks)
            /\ caller'.got.op = "GetAllStatuses" =>
                  /\ DOMAIN caller'.got.statuses = DOMAIN checks
                  /\ \A e \in DOMAIN checks : caller'.got.statuses[e] = e]_vars

\* C23's case: the first probe of e1 is in flight, nothing is recorded yet,
\* and GetAllStatuses has returned the records of both endpoints
C23_Witness ==
    /\ DOMAIN checks = Endpoints
    /\ \E m \in Tasks("e1") : monitors[m].pc = "probe"
    /\ checks["e1"].Attempts = 0
    /\ checks["e1"].Status = HealthStatusUnknown
    /\ checks["e2"].Attempts > 0
    /\ caller.got.op = "GetAllStatuses"
    /\ DOMAIN caller.got.statuses = Endpoints

\* a goroutine of the endpoint returns from updateHealth in this step
Records(e) ==
    \E m \in Tasks(e) : monitors[m].pc = "update" /\ monitors'[m].pc = "select"

\* C24: in every step the attempts of an endpoint grow by exactly 1 if the
\* step records a probe result for it (the probe's success, failure or
\* timeout) and stay as they are otherwise: a skipped tick, a Register, Stop
\* or status read, or a step about another endpoint. They never decrease.
C24_AttemptsCount ==
    [][\A e \in DOMAIN checks :
          /\ checks'[e].Attempts =
                checks[e].Attempts + (IF Records(e) THEN 1 ELSE 0)
          /\ checks'[e].Attempts >= checks[e].Attempts]_vars

\* C24's case: e1's one failure opened its circuit and its goroutine has
\* since skipped a tick, e2 has two results recorded, the last a success,
\* Stop() has returned and a status was read: attempts are 1 and 2
C24_Witness ==
    /\ DOMAIN checks = Endpoints
    /\ retryDelay = 1
    /\ \E m \in Tasks("e1") :
          monitors[m].circuit = CircuitOpen /\ monitors[m].start = ZeroTime
    /\ checks["e1"].Attempts = 1
    /\ \E m \in Tasks("e2") : monitors[m].err = NilError
    /\ checks["e2"].Attempts = 2
    /\ checks["e2"].Consecutive = 0
    /\ caller.stop = "returned"
    /\ caller.got.op = "GetStatus"

\* the records the caller holds from its last read: the pointers GetStatus
\* or GetAllStatuses returned
Held ==
    IF caller.got.op = "GetStatus"
    THEN IF caller.got.ok THEN {caller.got.endpoint} ELSE {}
    ELSE IF caller.got.op = "GetAllStatuses"
         THEN {caller.got.statuses[e] : e \in DOMAIN caller.got.statuses}
         ELSE {}

\* what the caller reads through a pointer it holds
Deref(p) == checks[p]

\* C25: what GetStatus or GetAllStatuses returned is a snapshot: while the
\* caller holds it, every record in it keeps the fields it had when the call
\* returned, whatever the goroutines record meanwhile.
C25_ReadsAreSnapshots ==
    [][caller'.got = caller.got =>
          \A p \in Held : Deref(p)' = Deref(p)]_vars

\* the goroutines of the endpoint that have not returned
Live(e) == {m \in Tasks(e) : monitors[m].pc # "exited"}

\* the goroutines of the endpoint whose probe is in flight
Probing(e) == {m \in Tasks(e) : monitors[m].pc = "probe"}

\* C26: whatever the calls of Register, Start and Stop, an endpoint has at
\* most one goroutine that has not returned, and so never two probes in flight
\* together.
C26_OneTaskPerEndpoint ==
    \A e \in DOMAIN checks :
        /\ Cardinality(Live(e)) <= 1
        /\ Cardinality(Probing(e)) <= 1

\* the goroutine can take the step it is at
CanStep(n) ==
    /\ monitors[n].pc = "select" => ENABLED MonitorTick(n)
    /\ monitors[n].pc = "check" => ENABLED PerformCheck(n)
    /\ monitors[n].pc = "halfopen" => ENABLED MoveToHalfOpen(n)
    /\ monitors[n].pc = "probe" =>
          \A err \in ProbeErrors : ENABLED CheckEndpoint(n, err)
    /\ monitors[n].pc = "update" => ENABLED UpdateHealth(n)

\* C27: while the probe of an endpoint is in flight, for however long, the
\* goroutine of every other endpoint can take its next step, wherever it is:
\* tick, look its record up, probe, record the result; and a step of a
\* goroutine of endpoint a (the recording of a's probe result among them)
\* leaves the record of every other endpoint as it is.
C27_Independent ==
    /\ [](\A m, n \in 1..Len(monitors) :
            (m # n /\ monitors[m].pc = "probe") => CanStep(n))
    /\ [][\A a \in DOMAIN checks :
            (\E m \in Tasks(a) : Moves(m)) =>
                \A b \in DOMAIN checks \ {a} : checks'[b] = checks[b]]_vars

\* C27's case: e1's first probe started at time 1 and is still in flight at
\* time 2; e2's goroutine has meanwhile started a probe at time 2 and recorded
\* its result
C27_Witness ==
    /\ now = 2
    /\ \E m \in Tasks("e1") :
          monitors[m].pc = "probe" /\ monitors[m].start = 1
    /\ checks["e1"].Attempts = 0
    /\ \E n \in Tasks("e2") :
          monitors[n].pc = "select" /\ monitors[n].start = 2
    /\ checks["e2"].LastCheck = 2
    /\ checks["e2"].Attempts >= 1

\* the actions in flight on the executor: over all its batches, the
\* goroutines inside their handler
InFlight == UNION {{<<h, i>> : i \in Executing(h)} : h \in 1..Len(exec)}

\* C28: the actions in flight on an executor, over all the batches running
\* on it, are never more than its workers.
C28_ExecutorBound == Cardinality(InFlight) <= workers

\* C29: a submission without targets is accepted like any other: the call
\* returns the operation and no error, the operation is stored under its id,
\* its status moves pending -> running -> completed and is completed when
\* executeBatch ends, its results are empty throughout, and no goroutine is
\* started and no handler called for it.
C29_EmptyBatch ==
    /\ [](\A h \in 1..Len(heap) :
            heap[h].Targets = <<>> =>
                /\ returned[h] = [op |-> h, err |-> NilError]
                /\ GetOperation(heap[h].ID) = [op |-> h, ok |-> TRUE]
                /\ heap[h].Status \in
                      {BatchOpPending, BatchOpRunning, BatchOpCompleted}
                /\ heap[h].Results = <<>>
                /\ exec[h].tasks = <<>>
                /\ exec[h].semaphore = 0
                /\ exec[h].pc = "done" => heap[h].Status = BatchOpCompleted)
    /\ [][\A h \in 1..Len(heap) :
            heap[h].Targets = <<>> =>
                \/ heap'[h].Status = heap[h].Status
                \/ /\ heap[h].Status = BatchOpPending
                   /\ heap'[h].Status = BatchOpRunning
                \/ /\ heap[h].Status = BatchOpRunning
                   /\ heap'[h].Status = BatchOpCompleted]_vars

\* C29's case: executeBatch has ended for a batch without targets
C29_Witness ==
    \E h \in 1..Len(heap) :
        /\ heap[h].Targets = <<>>
        /\ exec[h].pc = "done"
        /\ heap[h].Status = BatchOpCompleted
        /\ heap[h].Results = <<>>
        /\ h \in ListOperations

\* the changes of a circuit the breaker allows
CircuitSteps ==
    {<<CircuitClosed, CircuitOpen>>, <<CircuitOpen, CircuitHalfOpen>>,
     <<CircuitHalfOpen, CircuitClosed>>, <<CircuitHalfOpen, CircuitOpen>>}

\* C30: on a monitor started once, a step that changes the circuit of an
\* endpoint takes it closed -> open, open -> half-open, half-open -> closed or
\* half-open -> open, so never open -> closed and never closed -> half-open;
\* and a probe result is recorded only on a circuit that is half-open or
\* closed, never on an open one.
C30_CircuitTransitions ==
    [][\A e \in DOMAIN checks :
          /\ checks'[e].Circuit # checks[e].Circuit =>
                <<checks[e].Circuit, checks'[e].Circuit>> \in CircuitSteps
          /\ Recorded(e) =>
                checks[e].Circuit \in {CircuitHalfOpen, CircuitClosed}]_vars

\* C30's case: with threshold 1 a failure opened the circuit, a later tick
\* found it open and moved it to half-open, and the success of the third
\* probe has closed it
C30_Witness ==
    \E m \in 1..Len(monitors) :
        /\ threshold = 1
        /\ caller.starts = 1
        /\ monitors[m].pc = "select"
        /\ monitors[m].circuit = CircuitOpen
        /\ monitors[m].start # ZeroTime
        /\ checks[monitors[m].endpoint].Circuit = CircuitClosed
        /\ checks[monitors[m].endpoint].Attempts = 3
        /\ checks[monitors[m].endpoint].Consecutive = 0

\* C31: for a threshold of 1 or more, in every reachable state the record of
\* an endpoint has: a closed circuit only with consecutive below threshold;
\* an open or half-open circuit only with consecutive at or beyond threshold
\* and status unhealthy; and an empty error exactly when consecutive is 0.
C31_RecordInvariant ==
    threshold >= 1 =>
        \A e \in DOMAIN checks :
            /\ checks[e].Circuit = CircuitClosed =>
                  checks[e].Consecutive < threshold
            /\ checks[e].Circuit \in {CircuitOpen, CircuitHalfOpen} =>
                  /\ checks[e].Consecutive >= threshold
                  /\ checks[e].Status = HealthStatusUnhealthy
            /\ checks[e].Error = "" <=> checks[e].Consecutive = 0

\* C32: a probe that ends by the cancelled context is recorded like a failed
\* probe: attempts and consecutive grow by 1, the error is set, and the
\* circuit is open if consecutive is then at or beyond threshold; and Stop()
\* adds at most one such result per goroutine: when Stop() is called with no
\* result recorded yet (each endpoint has one goroutine, Start() being called
\* once), no endpoint ever has more than 1 attempt.
C32_StopAddsOneFailure ==
    /\ [][\A m \in 1..Len(monitors) :
            LET e == monitors[m].endpoint
            IN  (/\ monitors[m].pc = "update"
                 /\ monitors[m].err = TimeoutError
                 /\ Moves(m)) =>
                    /\ checks'[e].Attempts = checks[e].Attempts + 1
                    /\ checks'[e].Consecutive = checks[e].Consecutive + 1
                    /\ checks'[e].Error = TimeoutError.msg
                    /\ checks'[e].Consecutive >= threshold =>
                          checks'[e].Circuit = CircuitOpen]_vars
    /\ [](ctxDone => \A e \in DOMAIN checks : checks[e].Attempts <= 1)

----------------------------------------------------------------------------
(* Specifications *)

\* NewTagProtection (and an idle BatchOperator)
InitTP ==
    /\ policies = <<>>
    /\ last = NoCall
    /\ workers = 1
    /\ heap = <<>>
    /\ operations = <<>>
    /\ exec = <<>>
    /\ returned = <<>>
    /\ threshold = 1
    /\ retryDelay = 0
    /\ checks = <<>>
    /\ ctxDone = FALSE
    /\ hmWg = 0
    /\ monitors = <<>>
    /\ caller = IdleCaller
    /\ now = 1

\* the collection under AddPolicy, RemovePolicy and CanModify
NextTPModify ==
    \/ \E policy \in ModifyPolicy :
          Len(policies) < MaxPolicies /\ AddPolicy(policy)
    \/ \E name \in Names : RemovePolicy(name)
    \/ \E r \in Repositories, t \in Tags, age \in Ages : CallCanModify(r, t, age)

SpecTPModify == InitTP /\ [][NextTPModify]_vars

\* the collection under AddPolicy, RemovePolicy and CanDelete
NextTPDelete ==
    \/ \E policy \in DeletePolicy :
          Len(policies) < MaxPolicies /\ AddPolicy(policy)
    \/ \E name \in Names : RemovePolicy(name)
    \/ \E r \in Repositories, t \in Tags : CallCanDelete(r, t)

SpecTPDelete == InitTP /\ [][NextTPDelete]_vars

\* the collection under AddPolicy, RemovePolicy and ListPolicies alone, with
\* longer collections
NextTPEdit ==
    \/ \E policy \in EditPolicy :
          Len(policies) < MaxEditPolicies /\ AddPolicy(policy)
    \/ \E name \in Names : RemovePolicy(name)
    \/ CallListPolicies

SpecTPEdit == InitTP /\ [][NextTPEdit]_vars

\* NewBatchOperator(workers) (and an empty TagProtection)
InitBatch ==
    /\ policies = <<>>
    /\ last = NoCall
    /\ workers \in 1..MaxWorkers
    /\ heap = <<>>
    /\ operations = <<>>
    /\ exec = <<>>
    /\ returned = <<>>
    /\ threshold = 1
    /\ retryDelay = 0
    /\ checks = <<>>
    /\ ctxDone = FALSE
    /\ hmWg = 0
    /\ monitors = <<>>
    /\ caller = IdleCaller
    /\ now = 1

\* one executor and the first batch submitted to it, from submission to the
\* end of executeBatch
NextBatch ==
    \/ \E tags \in TargetLists, t \in ClockReadings :
          heap = <<>> /\ DeleteTags(tags, t)
    \/ \E sources \in TargetLists, t \in ClockReadings :
          heap = <<>> /\ CopyTags(sources, t)
    \/ \E targets \in TargetLists, t \in ClockReadings :
          heap = <<>> /\ RetagBatch(targets, t)
    \/ \E h \in 1..Len(heap) : ExecStart(h)
    \/ \E h \in 1..Len(heap) : \E i \in 1..Len(exec[h].tasks) : TaskAcquire(h, i)
    \/ \E h \in 1..Len(heap) : \E i \in 1..Len(exec[h].tasks) :
          \E err \in HandlerErrors : TaskReturn(h, i, err)
    \/ \E h \in 1..Len(heap) : \E i \in 1..Len(exec[h].tasks) : TaskRelease(h, i)
    \/ \E h \in 1..Len(heap) : ExecStoreResults(h)
    \/ \E h \in 1..Len(heap) : ExecStoreCompleted(h)
    \/ \E h \in 1..Len(heap) : ExecScan(h)

SpecBatch == InitBatch /\ [][NextBatch]_vars

\* a step of executeBatch or of one of its goroutines
ExecStep ==
    \E h \in 1..Len(heap) :
        \/ ExecStart(h)
        \/ \E i \in 1..Len(exec[h].tasks) : TaskAcquire(h, i)
        \/ \E i \in 1..Len(exec[h].tasks) : \E err \in HandlerErrors : TaskReturn(h, i, err)
        \/ \E i \in 1..Len(exec[h].tasks) : TaskRelease(h, i)
        \/ ExecStoreResults(h)
        \/ ExecStoreCompleted(h)
        \/ ExecScan(h)

\* SpecBatch where the scheduler runs a goroutine that can take a step and
\* every handler returns
FairSpecBatch == InitBatch /\ [][NextBatch]_vars /\ WF_vars(ExecStep)

\* the target lists of the batches of SpecStore
StoreTargetLists == {<<"a">>}

\* NewBatchOperator(1)
InitStore ==
    /\ policies = <<>>
    /\ last = NoCall
    /\ workers = 1
    /\ heap = <<>>
    /\ operations = <<>>
    /\ exec = <<>>
    /\ returned = <<>>
    /\ threshold = 1
    /\ retryDelay = 0
    /\ checks = <<>>
    /\ ctxDone = FALSE
    /\ hmWg = 0
    /\ monitors = <<>>
    /\ caller = IdleCaller
    /\ now = 1

\* one executor and the batches submitted to it, at any moment of the
\* execution of the earlier ones
NextStore ==
    \/ \E tags \in StoreTargetLists, t \in ClockReadings :
          Len(heap) < MaxBatches /\ DeleteTags(tags, t)
    \/ \E sources \in StoreTargetLists, t \in ClockReadings :
          Len(heap) < MaxBatches /\ CopyTags(sources, t)
    \/ \E targets \in StoreTargetLists, t \in ClockReadings :
          Len(heap) < MaxBatches /\ RetagBatch(targets, t)
    \/ \E h \in 1..Len(heap) : ExecStart(h)
    \/ \E h \in 1..Len(heap) : \E i \in 1..Len(exec[h].tasks) : TaskAcquire(h, i)
    \/ \E h \in 1..Len(heap) : \E i \in 1..Len(exec[h].tasks) :
          \E err \in HandlerErrors : TaskReturn(h, i, err)
    \/ \E h \in 1..Len(heap) : \E i \in 1..Len(exec[h].tasks) : TaskRelease(h, i)
    \/ \E h \in 1..Len(heap) : ExecStoreResults(h)
    \/ \E h \in 1..Len(heap) : ExecStoreCompleted(h)
    \/ \E h \in 1..Len(heap) : ExecScan(h)

SpecStore == InitStore /\ [][NextStore]_vars

\* NewHealthMonitor(threshold, retryDelay, timeout, checkInterval) (and an
\* empty TagProtection and an idle BatchOperator)
InitHealth ==
    /\ policies = <<>>
    /\ last = NoCall
    /\ workers = 1
    /\ heap = <<>>
    /\ operations = <<>>
    /\ exec = <<>>
    /\ returned = <<>>
    /\ threshold \in Thresholds
    /\ retryDelay \in RetryDelays
    /\ checks = <<>>
    /\ ctxDone = FALSE
    /\ hmWg = 0
    /\ monitors = <<>>
    /\ caller = IdleCaller
    /\ now = 1

\* a monitor used as documented: endpoints are registered, Start() is called
\* once, Stop() once and not before Start(); the endpoint's task ticks, skips
\* or probes while time passes
NextHealth ==
    \/ \E endpoint \in HealthEndpoints : Register(endpoint)
    \/ caller.starts = 0 /\ caller.stop = "idle" /\ Start
    \/ caller.starts > 0 /\ StopCancel
    \/ StopReturn
    \/ \E m \in 1..Len(monitors) :
          checks[monitors[m].endpoint].Attempts < MaxAttempts /\ MonitorTick(m)
    \/ \E m \in 1..Len(monitors) : MonitorDone(m)
    \/ \E m \in 1..Len(monitors) : PerformCheck(m)
    \/ \E m \in 1..Len(monitors) : MoveToHalfOpen(m)
    \/ \E m \in 1..Len(monitors) : \E err \in ProbeErrors : CheckEndpoint(m, err)
    \/ \E m \in 1..Len(monitors) : UpdateHealth(m)
    \/ now < MaxNow /\ Advance

SpecHealth == InitHealth /\ [][NextHealth]_vars

\* the retry delays of the monitors Stop() is followed on: none, or longer
\* than the run
StopRetryDelays == {0, 1}

\* NewHealthMonitor(1, retryDelay, timeout, checkInterval): one failed probe
\* opens the circuit; with no retry delay the next tick moves it to half-open
\* and probes, with a retry delay the next ticks are skipped, the whole run
\* lying within one unit of the clock
InitStop ==
    /\ policies = <<>>
    /\ last = NoCall
    /\ workers = 1
    /\ heap = <<>>
    /\ operations = <<>>
    /\ exec = <<>>
    /\ returned = <<>>
    /\ threshold = 1
    /\ retryDelay \in StopRetryDelays
    /\ checks = <<>>
    /\ ctxDone = FALSE
    /\ hmWg = 0
    /\ monitors = <<>>
    /\ caller = IdleCaller
    /\ now = 1

\* a monitor of up to two endpoints, used as documented, with a caller that
\* reads statuses and stops it at any moment after Start()
NextStop ==
    \/ \E endpoint \in Endpoints : Register(endpoint)
    \/ caller.starts = 0 /\ caller.stop = "idle" /\ Start
    \/ \E endpoint \in Endpoints : GetStatus(endpoint)
    \/ GetAllStatuses
    \/ caller.starts > 0 /\ StopCancel
    \/ StopReturn
    \/ \E m \in 1..Len(monitors) :
          checks[monitors[m].endpoint].Attempts < MaxStopAttempts /\ MonitorTick(m)
    \/ \E m \in 1..Len(monitors) : MonitorDone(m)
    \/ \E m \in 1..Len(monitors) : PerformCheck(m)
    \/ \E m \in 1..Len(monitors) : MoveToHalfOpen(m)
    \/ \E m \in 1..Len(monitors) : \E err \in ProbeErrors : CheckEndpoint(m, err)
    \/ \E m \in 1..Len(monitors) : UpdateHealth(m)

SpecStop == InitStop /\ [][NextStop]_vars

\* a monitor of one endpoint whose caller calls Start() again, at any moment,
\* before or after Stop(): every call starts its own goroutines
NextRestart ==
    \/ \E endpoint \in HealthEndpoints : Register(endpoint)
    \/ caller.starts < MaxStarts /\ Start
    \/ caller.starts > 0 /\ StopCancel
    \/ StopReturn
    \/ \E m \in 1..Len(monitors) :
          checks[monitors[m].endpoint].Attempts < MaxStopAttempts /\ MonitorTick(m)
    \/ \E m \in 1..Len(monitors) : MonitorDone(m)
    \/ \E m \in 1..Len(monitors) : PerformCheck(m)
    \/ \E m \in 1..Len(monitors) : MoveToHalfOpen(m)
    \/ \E m \in 1..Len(monitors) : \E err \in ProbeErrors : CheckEndpoint(m, err)
    \/ \E m \in 1..Len(monitors) : UpdateHealth(m)

SpecRestart == InitStop /\ [][NextRestart]_vars

\* a started monitor of up to two endpoints while time passes: the goroutines
\* tick, skip or probe, each probe taking any time
NextPair ==
    \/ \E endpoint \in Endpoints : Register(endpoint)
    \/ caller.starts = 0 /\ Start
    \/ \E m \in 1..Len(monitors) :
          checks[monitors[m].endpoint].Attempts < MaxStopAttempts /\ MonitorTick(m)
    \/ \E m \in 1..Len(monitors) : PerformCheck(m)
    \/ \E m \in 1..Len(monitors) : MoveToHalfOpen(m)
    \/ \E m \in 1..Len(monitors) : \E err \in ProbeErrors : CheckEndpoint(m, err)
    \/ \E m \in 1..Len(monitors) : UpdateHealth(m)
    \/ now < MaxPairNow /\ Advance

SpecPair == InitStop /\ [][NextPair]_vars

\* no probe result is recorded yet
NoneRecorded == \A e \in DOMAIN checks : checks[e].Attempts = 0

\* a monitor of up to two endpoints whose caller calls Stop() early: after
\* Start() and before the first probe result is recorded, with probes in
\* flight or not
NextShutdown ==
    \/ \E endpoint \in Endpoints : Register(endpoint)
    \/ caller.starts = 0 /\ caller.stop = "idle" /\ Start
    \/ caller.starts > 0 /\ NoneRecorded /\ StopCancel
    \/ StopReturn
    \/ \E m \in 1..Len(monitors) :
          checks[monitors[m].endpoint].Attempts < MaxStopAttempts /\ MonitorTick(m)
    \/ \E m \in 1..Len(monitors) : MonitorDone(m)
    \/ \E m \in 1..Len(monitors) : PerformCheck(m)
    \/ \E m \in 1..Len(monitors) : MoveToHalfOpen(m)
    \/ \E m \in 1..Len(monitors) : \E err \in ProbeErrors : CheckEndpoint(m, err)
    \/ \E m \in 1..Len(monitors) : UpdateHealth(m)

SpecShutdown == InitStop /\ [][NextShutdown]_vars

\* a step of monitor m inside performCheck
MonitorStep(m) ==
    /\ m \in 1..Len(monitors)
    /\ \/ PerformCheck(m)
       \/ MoveToHalfOpen(m)
       \/ \E err \in ProbeErrors : CheckEndpoint(m, err)
       \/ UpdateHealth(m)

\* monitor m leaves its select by the cancelled context
MonitorExit(m) == m \in 1..Len(monitors) /\ MonitorDone(m)

\* SpecStop where the scheduler runs a goroutine that can take a step, every
\* probe returns, and a select whose ctx.Done() case is ready at every visit
\* takes that case in the end (the runtime picks among ready cases at random)
FairSpecStop ==
    /\ InitStop
    /\ [][NextStop]_vars
    /\ WF_vars(StopReturn)
    /\ \A m \in 1..Cardinality(Endpoints) :
          WF_vars(MonitorStep(m)) /\ SF_vars(MonitorExit(m))

====
